---------------------------- MODULE Spec2Model ----------------------------
(***************************************************************************)
(* servedir: a single-process HTTP server that exposes one directory tree. *)
(* The model follows src/src/main.rs: process_request, send_dir, read_dir, *)
(* send_file, get_content_type, bad_request, io_error, format_file_list,   *)
(* write_file_list, write_dir_title and pretty_size, together with the     *)
(* library calls they rest on (percent_decode, std::path on Unix, the      *)
(* filesystem, the runtime's worker threads).                              *)
(*                                                                         *)
(* Text is a sequence of bytes (0..255), as in the code: the URI path, the *)
(* decoded path, file names and every emitted string.  Str turns a tuple   *)
(* of one-character strings into bytes, so "/b" is Str(<<"/", "b">>).      *)
(* Paths follow std::path on Unix (the build without cfg(windows)).        *)
(***************************************************************************)
EXTENDS Integers, Sequences, FiniteSets, TLC

VARIABLES
    root,       \* the directory to serve (run's dir)
    fs,         \* the served tree: node (sequence of names below Root) -> entry
    fsOps,      \* how many more changes other processes make to the tree
    tieUp,      \* the direction f64 formatting rounds an exact decimal tie
    raw,        \* request.uri().path() of each request
    pc,         \* where each request's handling stands
    worker,     \* the worker thread running the request's handler, 0 if none
    stuck,      \* whether the request's filesystem I/O never completes
    req_path,   \* the decoded request path (process_request's req_path)
    path,       \* root.join(resource)
    meta,       \* the Metadata process_request fetched
    entries,    \* the file names read_dir collected, in the order returned
    file,       \* the file handle send_file opened and the stream's offset
    resp,       \* the response
    calls       \* the paths handed to metadata, read_dir and File::open

vars == <<root, fs, fsOps, tieUp, raw, pc, worker, stuck, req_path, path, meta,
          entries, file, resp, calls>>

---------------------------------------------------------------------------
(* Bounds *)

NumReq == 3          \* connections that may carry a request
NumWorkers == 2      \* worker threads of the runtime
MaxTokens == 4       \* tokens of a generated URI path
MaxTitleTokens == 5  \* tokens of a generated directory URI path
MaxNameTokens == 3   \* tokens of a generated file name
MaxLen == 3          \* largest file length other processes write
MaxFsOps == 1        \* changes other processes make during a run
MaxMant == 15        \* file sizes are m * 10^e - d
MaxExp == 6
MaxDelta == 50

Requests == 1..NumReq
Workers == 1..NumWorkers

---------------------------------------------------------------------------
(* Bytes and text *)

\* The ASCII codes of the characters the model writes.
Ascii ==
    [c \in {" ", "%", "(", ")", "-", ".", "/", ":", ";", "="} |->
        CASE c = " " -> 32 [] c = "%" -> 37 [] c = "(" -> 40 [] c = ")" -> 41
          [] c = "-" -> 45 [] c = "." -> 46 [] c = "/" -> 47 [] c = ":" -> 58
          [] c = ";" -> 59 [] c = "=" -> 61]
    @@ [c \in {"0", "1", "2", "3", "4", "5", "6", "7", "8", "9"} |->
        CHOOSE n \in 48..57 : ToString(n - 48) = c]
    @@ ("A" :> 65) @@ ("B" :> 66) @@ ("C" :> 67) @@ ("E" :> 69) @@ ("F" :> 70)
    @@ ("H" :> 72) @@ ("I" :> 73) @@ ("M" :> 77) @@ ("N" :> 78) @@ ("O" :> 79)
    @@ ("P" :> 80) @@ ("S" :> 83)
    @@ ("a" :> 97) @@ ("b" :> 98) @@ ("c" :> 99) @@ ("d" :> 100)
    @@ ("e" :> 101) @@ ("f" :> 102) @@ ("h" :> 104) @@ ("i" :> 105)
    @@ ("j" :> 106) @@ ("k" :> 107) @@ ("l" :> 108) @@ ("m" :> 109)
    @@ ("n" :> 110) @@ ("o" :> 111) @@ ("p" :> 112) @@ ("q" :> 113)
    @@ ("r" :> 114) @@ ("s" :> 115) @@ ("t" :> 116) @@ ("u" :> 117)
    @@ ("v" :> 118) @@ ("w" :> 119) @@ ("x" :> 120) @@ ("y" :> 121)

Ord(c) == Ascii[c]

Str(t) == [i \in 1..Len(t) |-> Ord(t[i])]

\* The one element of a singleton set.  A function of the program is
\* written  F(x0) == Only({body : x \in {x0}}) : the body is computed from
\* the argument's value, taken once, as a call passes it; a value the body
\* uses throughout is bound the same way.
Only(S) == CHOOSE v \in S : TRUE

SEP == 47
DOT == 46
PCT == 37

RECURSIVE Flatten(_)
Flatten(ts0) ==
    Only({
        IF ts = <<>> THEN <<>> ELSE Head(ts) \o Flatten(Tail(ts))
        : ts \in {ts0}})

TokenSeqs(V, n) == UNION {[1..k -> V] : k \in 0..n}

RECURSIVE Digits(_)
Digits(n0) ==
    Only({
        IF n < 10 THEN <<Ord("0") + n>>
        ELSE Digits(n \div 10) \o <<Ord("0") + (n % 10)>>
        : n \in {n0}})

StartsWithBytes(s0, p0) ==
    Only({
        Len(s) >= Len(p) /\ SubSeq(s, 1, Len(p)) = p
        : s \in {s0}, p \in {p0}})

\* The segments of s between separators, empty ones included.
RECURSIVE Segments(_)
Segments(s0) ==
    Only({
        IF \A i \in 1..Len(s) : s[i] # SEP THEN <<s>>
        ELSE LET i == CHOOSE k \in 1..Len(s) :
                          s[k] = SEP /\ \A j \in 1..(k - 1) : s[j] # SEP
             IN <<SubSeq(s, 1, i - 1)>> \o Segments(SubSeq(s, i + 1, Len(s)))
        : s \in {s0}})

DotDot == <<DOT, DOT>>

---------------------------------------------------------------------------
(* percent_encoding::percent_decode and decode_utf8 *)

HexVal(b0) ==
    Only({
        IF b \in Ord("0")..Ord("9") THEN b - Ord("0")
        ELSE IF b \in Ord("a")..Ord("f") THEN b - Ord("a") + 10
        ELSE IF b \in Ord("A")..Ord("F") THEN b - Ord("A") + 10
        ELSE -1
        : b \in {b0}})

\* "%XY" with two hex digits becomes the byte 16*X+Y; any other byte, a
\* "%" not followed by two hex digits included, is copied.
RECURSIVE percent_decode(_)
percent_decode(s0) ==
    Only({
        IF s = <<>> THEN <<>>
        ELSE IF s[1] = PCT /\ Len(s) >= 3 /\ HexVal(s[2]) >= 0 /\ HexVal(s[3]) >= 0
             THEN <<16 * HexVal(s[2]) + HexVal(s[3])>>
                      \o percent_decode(SubSeq(s, 4, Len(s)))
             ELSE <<s[1]>> \o percent_decode(Tail(s))
        : s \in {s0}})

IsCont(s0, i0) ==
    Only({
        i <= Len(s) /\ s[i] \in 128..191
        : s \in {s0}, i \in {i0}})

\* Well-formed UTF-8 (the table of the Unicode standard).
RECURSIVE Utf8Valid(_)
Utf8Valid(s0) ==
    Only({
        IF s = <<>> THEN TRUE
        ELSE LET b == s[1]
                 rest(n) == Utf8Valid(SubSeq(s, n + 1, Len(s)))
             IN IF b < 128 THEN rest(1)
                ELSE IF b \in 194..223 THEN IsCont(s, 2) /\ rest(2)
                ELSE IF b = 224 THEN Len(s) >= 2 /\ s[2] \in 160..191
                                     /\ IsCont(s, 3) /\ rest(3)
                ELSE IF b = 237 THEN Len(s) >= 2 /\ s[2] \in 128..159
                                     /\ IsCont(s, 3) /\ rest(3)
                ELSE IF b \in 225..239 THEN IsCont(s, 2) /\ IsCont(s, 3) /\ rest(3)
                ELSE IF b = 240 THEN Len(s) >= 2 /\ s[2] \in 144..191
                                     /\ IsCont(s, 3) /\ IsCont(s, 4) /\ rest(4)
                ELSE IF b \in 241..243 THEN IsCont(s, 2) /\ IsCont(s, 3)
                                            /\ IsCont(s, 4) /\ rest(4)
                ELSE IF b = 244 THEN Len(s) >= 2 /\ s[2] \in 128..143
                                     /\ IsCont(s, 3) /\ IsCont(s, 4) /\ rest(4)
                ELSE FALSE
        : s \in {s0}})

\* decode_utf8 replaced by a lossy conversion that never fails.
decode_lossy(bytes0) == [ok |-> TRUE, val |-> bytes0]

\* decode_utf8 and OsStr::to_str: Ok exactly for well-formed UTF-8.
decode_utf8(bytes0) ==
    Only({
        [ok |-> Utf8Valid(bytes), val |-> bytes]
        : bytes \in {bytes0}})

---------------------------------------------------------------------------
(* std::path, Unix *)

has_root(s0) ==
    Only({
        Len(s) > 0 /\ s[1] = SEP
        : s \in {s0}})

Comp(kind, name) == [kind |-> kind, name |-> name]

RECURSIVE BodyComps(_, _)
BodyComps(segs0, first0) ==
    Only({
        IF segs = <<>> THEN <<>>
        ELSE LET g == Head(segs)
                 c == IF g = <<>> THEN <<>>
                      ELSE IF g = <<DOT>>
                           THEN (IF first THEN <<Comp("CurDir", g)>> ELSE <<>>)
                      ELSE IF g = DotDot THEN <<Comp("ParentDir", g)>>
                      ELSE <<Comp("Normal", g)>>
             IN c \o BodyComps(Tail(segs), FALSE)
        : segs \in {segs0}, first \in {first0}})

\* Path::components: the root, then the segments; empty segments and "."
\* are dropped, except a "." that starts a relative path.
components(s0) ==
    Only({
        IF s = <<>> THEN <<>>
        ELSE IF has_root(s)
             THEN <<Comp("RootDir", <<SEP>>)>> \o BodyComps(Segments(Tail(s)), FALSE)
             ELSE BodyComps(Segments(s), TRUE)
        : s \in {s0}})

\* Components::trim_left: drop leading empty and "." segments.
RECURSIVE TrimLeft(_)
TrimLeft(p0) ==
    Only({
        IF p = <<>> THEN <<>>
        ELSE IF p[1] = SEP THEN TrimLeft(Tail(p))
        ELSE IF p[1] = DOT /\ Len(p) = 1 THEN <<>>
        ELSE IF p[1] = DOT /\ p[2] = SEP THEN TrimLeft(SubSeq(p, 3, Len(p)))
        ELSE p
        : p \in {p0}})

\* Components::trim_right: drop trailing empty and "." segments, down to
\* the first lbb bytes (len_before_body).
RECURSIVE TrimRight(_, _)
TrimRight(p0, lbb0) ==
    Only({
        IF Len(p) <= lbb THEN p
        ELSE IF p[Len(p)] = SEP THEN TrimRight(SubSeq(p, 1, Len(p) - 1), lbb)
        ELSE IF p[Len(p)] = DOT /\ (Len(p) = lbb + 1 \/ p[Len(p) - 1] = SEP)
             THEN TrimRight(SubSeq(p, 1, Len(p) - 1), lbb)
        ELSE p
        : p \in {p0}, lbb \in {lbb0}})

\* Path::strip_prefix("/"): the path must start with the root component;
\* what is left is the remaining components' as_path().
strip_prefix(s0) ==
    Only({
        IF has_root(s)
        THEN [ok |-> TRUE, val |-> TrimRight(TrimLeft(Tail(s)), 0)]
        ELSE [ok |-> FALSE, val |-> <<>>]
        : s \in {s0}})

\* Path::join (PathBuf::push): an absolute argument replaces the path.
join(base0, p0) ==
    Only({
        IF has_root(p) THEN p
        ELSE IF base # <<>> /\ base[Len(base)] # SEP THEN base \o <<SEP>> \o p
        ELSE base \o p
        : base \in {base0}, p \in {p0}})

\* Path::starts_with: component-wise prefix.
starts_with(p0, base0) ==
    Only({
        Len(cp) >= Len(cb) /\ SubSeq(cp, 1, Len(cb)) = cb
        : cp \in {components(p0)}, cb \in {components(base0)}})

len_before_body(s0) ==
    Only({
        IF has_root(s) THEN 1
        ELSE IF Len(s) >= 1 /\ s[1] = DOT /\ (Len(s) = 1 \/ s[2] = SEP) THEN 1
        ELSE 0
        : s \in {s0}})

\* Components::next_back on the body: the last component and the path
\* left in front of it.
RECURSIVE NextBack(_, _)
NextBack(p0, lbb0) ==
    Only({
        IF Len(p) <= lbb THEN [some |-> FALSE, name |-> <<>>, rest |-> p]
        ELSE LET seps == {k \in (lbb + 1)..Len(p) : p[k] = SEP}
                 start == IF seps = {} THEN lbb + 1
                          ELSE 1 + CHOOSE k \in seps : \A j \in seps : j <= k
                 seg == SubSeq(p, start, Len(p))
                 size == Len(seg) + (IF seps = {} THEN 0 ELSE 1)
                 rest == SubSeq(p, 1, Len(p) - size)
             IN IF seg = <<>> \/ seg = <<DOT>> THEN NextBack(rest, lbb)
                ELSE [some |-> TRUE, name |-> seg, rest |-> rest]
        : p \in {p0}, lbb \in {lbb0}})

\* Path::file_name: the last component when it is a normal one.
file_name(s0) ==
    Only({
        IF b.some /\ b.name # DotDot THEN [some |-> TRUE, val |-> b.name]
        ELSE [some |-> FALSE, val |-> <<>>]
        : b \in {NextBack(s0, len_before_body(s0))}})

\* Path::parent: the path without its last component.
parent(s0) ==
    Only({
        IF b.some THEN [some |-> TRUE, val |-> TrimRight(b.rest, lbb)]
        ELSE IF ~has_root(s) /\ lbb = 1 /\ Len(s) >= 1
             THEN [some |-> TRUE, val |-> <<>>]
        ELSE [some |-> FALSE, val |-> <<>>]
        : s \in {s0}, lbb \in {len_before_body(s0)},
          b \in {NextBack(s0, len_before_body(s0))}})

\* Path::ancestors: the path, its parent, and so on.
RECURSIVE ancestors(_)
ancestors(s0) ==
    Only({
        IF p.some THEN <<s>> \o ancestors(p.val) ELSE <<s>>
        : s \in {s0}, p \in {parent(s0)}})

\* Path::extension: what follows the last "." of the file name, unless the
\* file name has no "." or only starts with one.
extension(s0) ==
    Only({
        LET n == f.val
            dots == {k \in 1..Len(n) : n[k] = DOT}
            last == CHOOSE k \in dots : \A j \in dots : j <= k
        IN IF ~f.some \/ dots = {} \/ last = 1
           THEN [some |-> FALSE, val |-> <<>>]
           ELSE [some |-> TRUE, val |-> SubSeq(n, last + 1, Len(n))]
        : f \in {file_name(s0)}})

---------------------------------------------------------------------------
(* The filesystem, as std::fs reports it *)

\* A node is the sequence of names leading to it from the served directory;
\* fs maps the nodes that exist to [kind, len, perm].  perm is read and
\* search permission for the server's user.
File(n) == [kind |-> "file", len |-> n, perm |-> TRUE]
Dir == [kind |-> "dir", len |-> 0, perm |-> TRUE]

Ok(v) == [ok |-> TRUE, val |-> v, kind |-> "", msg |-> <<>>]
Err(kind, msg) == [ok |-> FALSE, val |-> <<>>, kind |-> kind, msg |-> msg]

ENOENT ==
    Err("NotFound", Str(<<"N", "o", " ", "s", "u", "c", "h", " ", "f", "i",
        "l", "e", " ", "o", "r", " ", "d", "i", "r", "e", "c", "t", "o", "r",
        "y", " ", "(", "o", "s", " ", "e", "r", "r", "o", "r", " ", "2", ")">>))
EACCES ==
    Err("PermissionDenied", Str(<<"P", "e", "r", "m", "i", "s", "s", "i",
        "o", "n", " ", "d", "e", "n", "i", "e", "d", " ", "(", "o", "s", " ",
        "e", "r", "r", "o", "r", " ", "1", "3", ")">>))
ENOTDIR ==
    Err("Other", Str(<<"N", "o", "t", " ", "a", " ", "d", "i", "r", "e", "c",
        "t", "o", "r", "y", " ", "(", "o", "s", " ", "e", "r", "r", "o", "r",
        " ", "2", "0", ")">>))

\* The node a path names: the names after the served directory's own
\* components.  A path that does not start with them, or that climbs with
\* "..", leaves the served tree, of which the model knows nothing.
NodeOf(rt0, p0) ==
    Only({
        LET rest == SubSeq(cp, Len(cr) + 1, Len(cp))
        IN IF Len(cp) >= Len(cr) /\ SubSeq(cp, 1, Len(cr)) = cr
              /\ \A i \in 1..Len(rest) : rest[i].kind = "Normal"
           THEN [inside |-> TRUE, node |-> [i \in 1..Len(rest) |-> rest[i].name]]
           ELSE [inside |-> FALSE, node |-> <<>>]
        : cp \in {components(p0)}, cr \in {components(rt0)}})

\* Walking to a node: every directory on the way must exist, be a
\* directory and be searchable.
WalkError(f0, node0) ==
    Only({
        LET bad == {i \in 0..(Len(node) - 1) :
                       LET d == SubSeq(node, 1, i)
                       IN d \notin DOMAIN f \/ f[d].kind # "dir" \/ ~f[d].perm}
            i == CHOOSE k \in bad : \A j \in bad : k <= j
            d == SubSeq(node, 1, i)
        IN IF bad = {} THEN Ok(<<>>)
           ELSE IF d \notin DOMAIN f THEN ENOENT
           ELSE IF f[d].kind # "dir" THEN ENOTDIR
           ELSE EACCES
        : f \in {f0}, node \in {node0}})

\* Path::metadata (stat).
fs_metadata(f0, rt0, p0) ==
    Only({
        LET w == WalkError(f, n.node)
        IN IF ~n.inside THEN ENOENT
           ELSE IF ~w.ok THEN w
           ELSE IF n.node \notin DOMAIN f THEN ENOENT
           ELSE Ok([is_dir |-> f[n.node].kind = "dir", len |-> f[n.node].len])
        : f \in {f0}, n \in {NodeOf(rt0, p0)}})

Children(f0, node0) ==
    Only({
        {c \in DOMAIN f : Len(c) = Len(node) + 1 /\ SubSeq(c, 1, Len(node)) = node}
        : f \in {f0}, node \in {node0}})

\* Path::read_dir, collected: the names of the directory's children.
fs_read_dir(f0, rt0, p0) ==
    Only({
        LET w == WalkError(f, n.node)
        IN IF ~n.inside THEN ENOENT
           ELSE IF ~w.ok THEN w
           ELSE IF n.node \notin DOMAIN f THEN ENOENT
           ELSE IF f[n.node].kind # "dir" THEN ENOTDIR
           ELSE IF ~f[n.node].perm THEN EACCES
           ELSE Ok({c[Len(c)] : c \in Children(f, n.node)})
        : f \in {f0}, n \in {NodeOf(rt0, p0)}})

\* File::open for reading.  Opening a directory succeeds; reading it fails.
fs_open(f0, rt0, p0) ==
    Only({
        LET w == WalkError(f, n.node)
        IN IF ~n.inside THEN ENOENT
           ELSE IF ~w.ok THEN w
           ELSE IF n.node \notin DOMAIN f THEN ENOENT
           ELSE IF ~f[n.node].perm THEN EACCES
           ELSE Ok([open |-> TRUE, node |-> n.node, linked |-> TRUE,
                    is_dir |-> f[n.node].kind = "dir", len |-> f[n.node].len,
                    off |-> 0])
        : f \in {f0}, n \in {NodeOf(rt0, p0)}})

Orders(S) ==
    {o \in [1..Cardinality(S) -> S] :
        \A i, j \in 1..Cardinality(S) : o[i] = o[j] => i = j}

---------------------------------------------------------------------------
(* Responses *)

NoMeta == [is_dir |-> FALSE, len |-> 0]
NoFile == [open |-> FALSE, node |-> <<>>, linked |-> FALSE, is_dir |-> FALSE,
           len |-> 0, off |-> 0]

\* status 0: no response yet.  content_length -1: no such header.  text is
\* a plain body, title and rows are a directory page, sent counts the bytes
\* of a streamed body, aborted says the stream failed.
NoResp == [status |-> 0, content_length |-> -1, content_type |-> <<>>,
           text |-> <<>>, title |-> <<>>, rows |-> <<>>, sent |-> 0,
           aborted |-> FALSE]

bad_request ==
    [NoResp EXCEPT !.status = 400,
        !.text = Str(<<"B", "a", "d", " ", "r", "e", "q", "u", "e", "s", "t">>)]

\* io_error that answers 500 whatever the cause.
io_error_always_500(e0) ==
    Only({
        [NoResp EXCEPT
            !.status = 500,
            !.text = Str(<<"I", "O", " ", "e", "r", "r", "o", "r", ":", " ">>)
                         \o e.msg]
        : e \in {e0}})

io_error(e0) ==
    Only({
        [NoResp EXCEPT
            !.status = IF e.kind = "NotFound" THEN 404
                       ELSE IF e.kind = "PermissionDenied" THEN 403
                       ELSE 500,
            !.text = Str(<<"I", "O", " ", "e", "r", "r", "o", "r", ":", " ">>)
                         \o e.msg]
        : e \in {e0}})

\* get_content_type without the "htm" pattern.
get_content_type_no_htm(p0) ==
    Only({
        LET utf8 == Str(<<";", " ", "c", "h", "a", "r", "s", "e", "t", "=", "u",
                          "t", "f", "-", "8">>)
            octet == Str(<<"a", "p", "p", "l", "i", "c", "a", "t", "i", "o", "n",
                           "/", "o", "c", "t", "e", "t", "-", "s", "t", "r", "e",
                           "a", "m">>)
        IN IF ~e.some THEN octet
           ELSE IF e.val = Str(<<"c", "s", "s">>)
                THEN Str(<<"t", "e", "x", "t", "/", "c", "s", "s">>) \o utf8
           ELSE IF e.val = Str(<<"h", "t", "m", "l">>)
                THEN Str(<<"t", "e", "x", "t", "/", "h", "t", "m", "l">>) \o utf8
           ELSE IF e.val = Str(<<"j", "s", "o", "n">>)
                THEN Str(<<"a", "p", "p", "l", "i", "c", "a", "t", "i", "o", "n",
                           "/", "j", "s", "o", "n">>)
           ELSE IF e.val = Str(<<"t", "x", "t">>)
                THEN Str(<<"t", "e", "x", "t", "/", "p", "l", "a", "i", "n">>) \o utf8
           ELSE IF e.val = Str(<<"x", "m", "l">>)
                THEN Str(<<"t", "e", "x", "t", "/", "x", "m", "l">>)
           ELSE octet
        : e \in {extension(p0)}})

get_content_type(p0) ==
    Only({
        LET ext == IF e.some /\ decode_utf8(e.val).ok THEN e.val ELSE <<>>
            none == ~(e.some /\ decode_utf8(e.val).ok)
            utf8 == Str(<<";", " ", "c", "h", "a", "r", "s", "e", "t", "=", "u",
                          "t", "f", "-", "8">>)
            octet == Str(<<"a", "p", "p", "l", "i", "c", "a", "t", "i", "o", "n",
                           "/", "o", "c", "t", "e", "t", "-", "s", "t", "r", "e",
                           "a", "m">>)
        IN IF none THEN octet
           ELSE IF ext = Str(<<"c", "s", "s">>)
                THEN Str(<<"t", "e", "x", "t", "/", "c", "s", "s">>) \o utf8
           ELSE IF ext = Str(<<"h", "t", "m">>) \/ ext = Str(<<"h", "t", "m", "l">>)
                THEN Str(<<"t", "e", "x", "t", "/", "h", "t", "m", "l">>) \o utf8
           ELSE IF ext = Str(<<"j", "s", "o", "n">>)
                THEN Str(<<"a", "p", "p", "l", "i", "c", "a", "t", "i", "o", "n",
                           "/", "j", "s", "o", "n">>)
           ELSE IF ext = Str(<<"t", "x", "t">>)
                THEN Str(<<"t", "e", "x", "t", "/", "p", "l", "a", "i", "n">>) \o utf8
           ELSE IF ext = Str(<<"x", "m", "l">>)
                THEN Str(<<"t", "e", "x", "t", "/", "x", "m", "l">>)
           ELSE octet
        : e \in {extension(p0)}})

---------------------------------------------------------------------------
(* The directory page *)

PrefixSymbols == <<"k", "M", "G", "T", "P", "E", "Z", "Y">>

\* number_prefix::decimal_prefix: divide by 1000 while the amount is at
\* least 1000 and a prefix is left.  The amount is size / den.
RECURSIVE decimal_prefix(_, _, _)
decimal_prefix(size0, den0, prefix0) ==
    Only({
        IF size \div den >= 1000 /\ prefix < Len(PrefixSymbols)
        THEN decimal_prefix(size, den * 1000, prefix + 1)
        ELSE [prefix |-> prefix, num |-> size, den |-> den]
        : size \in {size0}, den \in {den0}, prefix \in {prefix0}})

\* Tenths that cuts the digits off instead of rounding.
TenthsTruncated(num0, den0, up0) ==
    Only({
        (num * 10) \div den
        : num \in {num0}, den \in {den0}, up \in {up0}})

\* format!("{:.1}", num / den) in tenths: the nearest tenth.  The f64
\* quotient lies off an exact decimal tie to either side, so a tie goes up
\* or down (up).
Tenths(num0, den0, up0) ==
    Only({
        LET q == (num * 10) \div den
            rem == (num * 10) % den
        IN IF 2 * rem > den \/ (2 * rem = den /\ up) THEN q + 1 ELSE q
        : num \in {num0}, den \in {den0}, up \in {up0}})

pretty_size(size0) ==
    Only({
        LET t == Tenths(d.num, d.den, tieUp)
        IN IF d.prefix = 0 THEN Digits(size) \o Str(<<" ", "B">>)
           ELSE Digits(t \div 10) \o <<DOT>> \o Digits(t % 10) \o Str(<<" ">>)
                    \o Str(<<PrefixSymbols[d.prefix], "B">>)
        : size \in {size0}, d \in {decimal_prefix(size0, 1, 0)}})

Link(href, text) == [href |-> href, text |-> text]

RECURSIVE Reverse(_)
Reverse(s0) ==
    Only({
        IF s = <<>> THEN <<>> ELSE Reverse(Tail(s)) \o <<Head(s)>>
        : s \in {s0}})

\* write_dir_title without parts.reverse().
write_dir_title_unreversed(p0) ==
    Only({
        LET parts == [i \in 1..Len(anc) |->
                         Link(anc[i], IF file_name(anc[i]).some
                                      THEN file_name(anc[i]).val ELSE <<>>)]
        IN <<Link(<<SEP>>, <<SEP>>)>> \o SubSeq(parts, 1, Len(parts) - 1)
        : anc \in {ancestors(p0)}})

\* The links of the heading: the root link, then one per ancestor of the
\* request path, the root ancestor dropped.
write_dir_title(p0) ==
    Only({
        LET parts == [i \in 1..Len(anc) |->
                         Link(anc[i], IF file_name(anc[i]).some
                                         /\ decode_utf8(file_name(anc[i]).val).ok
                                      THEN file_name(anc[i]).val ELSE <<>>)]
            popped == SubSeq(parts, 1, Len(parts) - 1)
        IN <<Link(<<SEP>>, <<SEP>>)>> \o Reverse(popped)
        : anc \in {ancestors(p0)}})

\* SizeCell without the is_file test.
SizeCellOfAny(f0, rt0, dir0, name0) ==
    Only({
        IF m.ok THEN pretty_size(m.val.len) ELSE <<>>
        : m \in {fs_metadata(f0, rt0, join(dir0, name0))}})

\* DirEntry::metadata of the child `name` of directory `dir`, then the
\* size cell.
SizeCell(f0, rt0, dir0, name0) ==
    Only({
        IF m.ok /\ ~m.val.is_dir THEN pretty_size(m.val.len) ELSE <<>>
        : m \in {fs_metadata(f0, rt0, join(dir0, name0))}})

\* The rows of the table: one per entry whose file name is valid text.
RECURSIVE write_file_list(_, _, _, _, _)
write_file_list(f0, rt0, dir0, names0, rp0) ==
    Only({
        IF names = <<>> THEN <<>>
        ELSE LET fname == file_name(join(dir, Head(names)))
                 rest == write_file_list(f, rt, dir, Tail(names), rp)
             IN IF fname.some /\ decode_utf8(fname.val).ok
                THEN <<[href |-> join(rp, fname.val), text |-> fname.val,
                        size |-> SizeCell(f, rt, dir, Head(names))]>> \o rest
                ELSE rest
        : f \in {f0}, rt \in {rt0}, dir \in {dir0}, names \in {names0}, rp \in {rp0}})

---------------------------------------------------------------------------
(* Handling a request *)

\* goes_up without the ParentDir arm.
goes_up_root_only(resource0) ==
    Only({
        \E i \in 1..Len(components(resource)) :
            components(resource)[i].kind \in {"Prefix", "RootDir"}
        : resource \in {resource0}})

goes_up(resource0) ==
    Only({
        \E i \in 1..Len(components(resource)) :
            components(resource)[i].kind \in {"ParentDir", "Prefix", "RootDir"}
        : resource \in {resource0}})

\* process_request up to the metadata query: decode, validate, join.
resolve(rt0, uri_path0) ==
    Only({
        LET bad == [ok |-> FALSE, req_path |-> <<>>, path |-> <<>>]
            resource == strip_prefix(decoded.val)
            p == join(rt, resource.val)
        IN IF ~decoded.ok THEN bad
           ELSE IF ~resource.ok THEN bad
           ELSE IF goes_up(resource.val) THEN bad
           ELSE IF ~starts_with(p, rt) THEN bad
           ELSE [ok |-> TRUE, req_path |-> decoded.val, path |-> p]
        : rt \in {rt0},
          decoded \in {decode_utf8(percent_decode(uri_path0))}})

Free(w) == \A q \in Requests : worker[q] # w

\* A worker thread calls the service for a queued request: process_request
\* runs up to its metadata query.
process_request(r, w) ==
    /\ pc[r] = "queued"
    /\ Free(w)
    /\ \E res \in {resolve(root, raw[r])} :
          IF res.ok
          THEN /\ pc' = [pc EXCEPT ![r] = "metadata"]
               /\ worker' = [worker EXCEPT ![r] = w]
               /\ req_path' = [req_path EXCEPT ![r] = res.req_path]
               /\ path' = [path EXCEPT ![r] = res.path]
               /\ resp' = resp
          ELSE /\ pc' = [pc EXCEPT ![r] = "done"]
               /\ resp' = [resp EXCEPT ![r] = bad_request]
               /\ UNCHANGED <<worker, req_path, path>>
    /\ UNCHANGED <<root, fs, fsOps, tieUp, raw, stuck, meta, entries, file,
                   calls>>

\* path.metadata() and the dispatch on is_dir.  The call blocks the worker
\* thread; send_file returns its future and frees the thread.
query_metadata(r) ==
    /\ pc[r] = "metadata"
    /\ ~stuck[r]
    /\ calls' = [calls EXCEPT ![r] = @ \cup {path[r]}]
    /\ \E m \in {fs_metadata(fs, root, path[r])} :
          IF ~m.ok
          THEN /\ pc' = [pc EXCEPT ![r] = "done"]
               /\ resp' = [resp EXCEPT ![r] = io_error(m)]
               /\ worker' = [worker EXCEPT ![r] = 0]
               /\ meta' = meta
          ELSE /\ pc' = [pc EXCEPT ![r] = IF m.val.is_dir THEN "read_dir"
                                          ELSE "open"]
               /\ meta' = [meta EXCEPT ![r] = m.val]
               /\ worker' = [worker EXCEPT ![r] = IF m.val.is_dir THEN @ ELSE 0]
               /\ resp' = resp
    /\ UNCHANGED <<root, fs, fsOps, tieUp, raw, stuck, req_path, path,
                   entries, file>>

\* send_dir's read_dir: the entries come in an order the filesystem picks.
send_dir(r) ==
    /\ pc[r] = "read_dir"
    /\ ~stuck[r]
    /\ calls' = [calls EXCEPT ![r] = @ \cup {path[r]}]
    /\ \E e \in {fs_read_dir(fs, root, path[r])} :
          IF ~e.ok
          THEN /\ pc' = [pc EXCEPT ![r] = "done"]
               /\ resp' = [resp EXCEPT ![r] = io_error(e)]
               /\ worker' = [worker EXCEPT ![r] = 0]
               /\ entries' = entries
          ELSE /\ \E o \in Orders(e.val) : entries' = [entries EXCEPT ![r] = o]
               /\ pc' = [pc EXCEPT ![r] = "format"]
               /\ UNCHANGED <<resp, worker>>
    /\ UNCHANGED <<root, fs, fsOps, tieUp, raw, stuck, req_path, path, meta,
                   file>>

\* send_dir's format_file_list and response: the page is built whole, each
\* entry's metadata looked up as its row is written.
format_file_list(r) ==
    /\ pc[r] = "format"
    /\ ~stuck[r]
    /\ resp' = [resp EXCEPT ![r] =
                   [NoResp EXCEPT !.status = 200,
                       !.title = write_dir_title(req_path[r]),
                       !.rows = write_file_list(fs, root, path[r], entries[r],
                                                req_path[r])]]
    /\ pc' = [pc EXCEPT ![r] = "done"]
    /\ worker' = [worker EXCEPT ![r] = 0]
    /\ UNCHANGED <<root, fs, fsOps, tieUp, raw, stuck, req_path, path, meta,
                   entries, file, calls>>

\* send_file: open the file; the headers carry the length the metadata
\* query reported.
send_file(r) ==
    /\ pc[r] = "open"
    /\ ~stuck[r]
    /\ calls' = [calls EXCEPT ![r] = @ \cup {path[r]}]
    /\ \E o \in {fs_open(fs, root, path[r])} :
          IF ~o.ok
          THEN /\ pc' = [pc EXCEPT ![r] = "done"]
               /\ resp' = [resp EXCEPT ![r] = io_error(o)]
               /\ file' = file
          ELSE /\ pc' = [pc EXCEPT ![r] = "body"]
               /\ file' = [file EXCEPT ![r] = o.val]
               /\ resp' = [resp EXCEPT ![r] =
                              [NoResp EXCEPT !.status = 200,
                                  !.content_length = meta[r].len,
                                  !.content_type = get_content_type(path[r])]]
    /\ UNCHANGED <<root, fs, fsOps, tieUp, raw, stuck, req_path, path, meta,
                   entries, worker>>

\* The transport polls the body stream: a chunk of what the file holds past
\* the offset, cut at the announced length; the body is complete when the
\* announced length has been sent, and the connection is dropped when the
\* stream ends or fails before that.
poll_body(r) ==
    /\ pc[r] = "body"
    /\ ~stuck[r]
    /\ LET left == resp[r].content_length - resp[r].sent
           avail == file[r].len - file[r].off
       IN IF left = 0
          THEN /\ pc' = [pc EXCEPT ![r] = "done"]
               /\ UNCHANGED <<resp, file>>
          ELSE IF file[r].is_dir \/ avail <= 0
          THEN /\ pc' = [pc EXCEPT ![r] = "done"]
               /\ resp' = [resp EXCEPT ![r].aborted = TRUE]
               /\ file' = file
          ELSE \E k \in 1..(IF avail < left THEN avail ELSE left) :
                  /\ file' = [file EXCEPT ![r].off = @ + k]
                  /\ resp' = [resp EXCEPT ![r].sent = @ + k]
                  /\ pc' = pc
    /\ UNCHANGED <<root, fs, fsOps, tieUp, raw, stuck, req_path, path, meta,
                   entries, worker, calls>>

---------------------------------------------------------------------------
(* Other processes change the served tree *)

Under(n, top) == Len(n) >= Len(top) /\ SubSeq(n, 1, Len(top)) = top

Unlink(top) ==
    [r \in Requests |->
        IF file[r].open /\ Under(file[r].node, top)
        THEN [file[r] EXCEPT !.linked = FALSE] ELSE file[r]]

Handler == <<raw, pc, worker, stuck, req_path, path, meta, entries, resp,
             calls>>

\* write or truncate: open handles on the file see the new length.
FsSetLen(n, k) ==
    /\ fsOps > 0
    /\ n \in DOMAIN fs /\ fs[n].kind = "file" /\ fs[n].len # k
    /\ fs' = [fs EXCEPT ![n].len = k]
    /\ file' = [r \in Requests |->
                   IF file[r].open /\ file[r].linked /\ file[r].node = n
                   THEN [file[r] EXCEPT !.len = k] ELSE file[r]]
    /\ fsOps' = fsOps - 1
    /\ UNCHANGED <<root, tieUp>> /\ UNCHANGED Handler

\* unlink or rm -r: open handles keep the removed file.
FsRemove(n) ==
    /\ fsOps > 0
    /\ n \in DOMAIN fs /\ n # <<>>
    /\ fs' = [m \in {x \in DOMAIN fs : ~Under(x, n)} |-> fs[m]]
    /\ file' = Unlink(n)
    /\ fsOps' = fsOps - 1
    /\ UNCHANGED <<root, tieUp>> /\ UNCHANGED Handler

\* chmod: take away or give back read and search permission.
FsChmod(n) ==
    /\ fsOps > 0
    /\ n \in DOMAIN fs
    /\ fs' = [fs EXCEPT ![n].perm = ~@]
    /\ fsOps' = fsOps - 1
    /\ UNCHANGED <<root, tieUp, file>> /\ UNCHANGED Handler

\* replace a file by an empty directory, or a directory by an empty file.
FsReplace(n) ==
    /\ fsOps > 0
    /\ n \in DOMAIN fs /\ n # <<>>
    /\ fs' = [m \in {x \in DOMAIN fs : ~Under(x, n)} \cup {n} |->
                 IF m = n THEN (IF fs[n].kind = "file" THEN Dir ELSE File(0))
                 ELSE fs[m]]
    /\ file' = Unlink(n)
    /\ fsOps' = fsOps - 1
    /\ UNCHANGED <<root, tieUp>> /\ UNCHANGED Handler

---------------------------------------------------------------------------
(* Initial states *)

DefaultRoot == Str(<<"/", "s", "r", "v">>)
Roots == {DefaultRoot, Str(<<"w", "w", "w">>),
          Str(<<".", ".", "/", "p", "u", "b">>)}

N_atxt == Str(<<"a", ".", "t", "x", "t">>)
N_b == Str(<<"b">>)
N_c == Str(<<"c">>)
N_d == Str(<<"d">>)
N_pct == Str(<<"%", "4", "1">>)
N_raw == <<255>>      \* a file name that is not valid UTF-8

\* The served tree: a.txt (3 bytes), b/ holding c (1 byte) and d/, a file
\* named %41 and a file whose name is not text.
BaseTree ==
    (<<>> :> Dir) @@ (<<N_atxt>> :> File(3)) @@ (<<N_b>> :> Dir)
    @@ (<<N_b, N_c>> :> File(1)) @@ (<<N_b, N_d>> :> Dir)
    @@ (<<N_pct>> :> File(1)) @@ (<<N_raw>> :> File(0))

Slash == <<SEP>>

Tok_dotdot == DotDot
Tok_dot == <<DOT>>
Tok_2e == Str(<<"%", "2", "e">>)
Tok_2f == Str(<<"%", "2", "F">>)
Tok_ff == Str(<<"%", "f", "f">>)

UriPaths(V, n) == {Flatten(t) : t \in TokenSeqs(V, n)}

ResolveInputs ==
    UriPaths({Slash, Tok_dotdot, Tok_dot, N_b, N_atxt, Tok_2e, Tok_2f, Tok_ff},
             MaxTokens)

TitleInputs == UriPaths({Slash, Tok_dot, N_b, N_d}, MaxTitleTokens)

MainPaths ==
    {Slash, Slash \o N_b, Slash \o N_b \o Slash, Slash \o N_atxt,
     Slash \o N_b \o Slash \o N_c, Slash \o N_pct,
     Slash \o N_atxt \o Slash \o N_c, Slash \o N_c}

PoolPaths == {Slash \o N_b, Slash \o N_atxt}

NameInputs ==
    {n \in UriPaths({Str(<<"a">>), Tok_dot, Str(<<"c", "s", "s">>),
                     Str(<<"h", "t", "m">>), Str(<<"h", "t", "m", "l">>),
                     Str(<<"j", "s", "o", "n">>), Str(<<"t", "x", "t">>),
                     Str(<<"x", "m", "l">>), Str(<<"C", "S", "S">>),
                     Str(<<"H", "t", "m", "l">>), Str(<<"b", "i", "n">>)},
                    MaxNameTokens) :
        n # <<>> /\ n # Tok_dot /\ n # DotDot}

RECURSIVE Pow10(_)
Pow10(e) == IF e = 0 THEN 1 ELSE 10 * Pow10(e - 1)

SizeInputs ==
    {n \in {m * Pow10(e) - d :
                m \in 1..MaxMant, e \in 0..MaxExp, d \in 0..MaxDelta} : n >= 0}

\* No request under way: the connections in Q carry a request each.
Idle(Q) ==
    /\ pc = [r \in Requests |-> IF r \in Q THEN "queued" ELSE "absent"]
    /\ worker = [r \in Requests |-> 0]
    /\ req_path = [r \in Requests |-> <<>>]
    /\ path = [r \in Requests |-> <<>>]
    /\ meta = [r \in Requests |-> NoMeta]
    /\ entries = [r \in Requests |-> <<>>]
    /\ file = [r \in Requests |-> NoFile]
    /\ resp = [r \in Requests |-> NoResp]
    /\ calls = [r \in Requests |-> {}]

One(p) == [r \in Requests |-> IF r = 1 THEN p ELSE <<>>]
NoneStuck == [r \in Requests |-> FALSE]

\* One request for a path of the tree, while other processes change it.
Init ==
    /\ root = DefaultRoot
    /\ fs = BaseTree
    /\ fsOps = MaxFsOps
    /\ tieUp = FALSE
    /\ \E p \in MainPaths : raw = One(p)
    /\ stuck = NoneStuck
    /\ Idle({1})

\* One request for any generated URI path; the tree stays as it is.
InitResolve ==
    /\ root \in Roots
    /\ fs = BaseTree
    /\ fsOps = 0
    /\ tieUp = FALSE
    /\ \E p \in ResolveInputs \cup TitleInputs : raw = One(p)
    /\ stuck = NoneStuck
    /\ Idle({1})

\* One request for the only file of the tree, of any generated name.
InitType ==
    /\ root = DefaultRoot
    /\ \E n \in NameInputs, k \in 0..1 :
          /\ fs = (<<>> :> Dir) @@ (<<n>> :> File(k))
          /\ raw = One(Slash \o n)
    /\ fsOps = 0
    /\ tieUp = FALSE
    /\ stuck = NoneStuck
    /\ Idle({1})

\* One request for the listing of a tree that holds one file of any
\* generated size.
InitSize ==
    /\ root = DefaultRoot
    /\ \E n \in SizeInputs : fs = (<<>> :> Dir) @@ (<<N_c>> :> File(n))
    /\ raw = One(Slash)
    /\ fsOps = 0
    /\ tieUp \in BOOLEAN
    /\ stuck = NoneStuck
    /\ Idle({1})

\* Every connection carries a request; the I/O of some never completes.
InitPool ==
    /\ root = DefaultRoot
    /\ fs = BaseTree
    /\ fsOps = 0
    /\ tieUp = FALSE
    /\ raw \in [Requests -> PoolPaths]
    /\ stuck \in [Requests -> BOOLEAN]
    /\ Idle(Requests)

---------------------------------------------------------------------------
(* Specifications *)

Accept(r) == \E w \in Workers : process_request(r, w)

Handle(r) ==
    \/ Accept(r)
    \/ query_metadata(r)
    \/ send_dir(r)
    \/ format_file_list(r)
    \/ send_file(r)
    \/ poll_body(r)

FsChange ==
    \/ \E n \in DOMAIN fs, k \in 0..MaxLen : FsSetLen(n, k)
    \/ \E n \in DOMAIN fs : FsRemove(n)
    \/ \E n \in DOMAIN fs : FsChmod(n)
    \/ \E n \in DOMAIN fs : FsReplace(n)

Next ==
    \/ \E r \in Requests : Handle(r)
    \/ FsChange

Spec == Init /\ [][Next]_vars

NextResolve == \E r \in Requests : Handle(r)

SpecResolve == InitResolve /\ [][NextResolve]_vars

NextType ==
    \E r \in Requests :
        \/ Accept(r)
        \/ query_metadata(r)
        \/ send_file(r)
        \/ poll_body(r)

SpecType == InitType /\ [][NextType]_vars

NextSize ==
    \E r \in Requests :
        \/ Accept(r)
        \/ query_metadata(r)
        \/ send_dir(r)
        \/ format_file_list(r)

SpecSize == InitSize /\ [][NextSize]_vars

NextPool == \E r \in Requests : Handle(r)

\* The runtime keeps running whatever handler can take a step.
SpecPool ==
    InitPool /\ [][NextPool]_vars /\ \A r \in Requests : WF_vars(Handle(r))

---------------------------------------------------------------------------
(* Properties *)

Started(r) == pc[r] \notin {"absent", "queued"}
Finished(r) == pc[r] = "done"
Decoded(r) == percent_decode(raw[r])
BadRequestText == Str(<<"B", "a", "d", " ", "r", "e", "q", "u", "e", "s", "t">>)

\* A segment ".." between separators.
HasDotDotSegment(s) == \E i \in 1..Len(Segments(s)) : Segments(s)[i] = DotDot

\* The path is the served directory followed by a separator and segments
\* none of which is "..".
BelowRoot(p) ==
    /\ StartsWithBytes(p, root \o <<SEP>>)
    /\ ~HasDotDotSegment(SubSeq(p, Len(root) + 2, Len(p)))

C3_MalformedIs400 ==
    \A r \in Requests :
        (Started(r)
         /\ (~Utf8Valid(Decoded(r))
             \/ Decoded(r) = <<>> \/ Decoded(r)[1] # SEP))
        => /\ Finished(r)
           /\ resp[r].status = 400
           /\ resp[r].text = BadRequestText
           /\ calls[r] = {}

\* A request whose path decodes to bytes that are not UTF-8, though it
\* begins with the separator, has been answered 400.
C3_Witness ==
    \E r \in Requests :
        /\ Finished(r) /\ resp[r].status = 400
        /\ ~Utf8Valid(Decoded(r))
        /\ Decoded(r) # <<>> /\ Decoded(r)[1] = SEP

\* The positions at which the normal segments of a path end.
SegmentEnds(p) ==
    {k \in 1..Len(p) :
        /\ p[k] # SEP
        /\ (k = Len(p) \/ p[k + 1] = SEP)
        /\ ~(p[k] = DOT /\ (k = 1 \/ p[k - 1] = SEP))}

RECURSIVE Sorted(_)
Sorted(S) ==
    IF S = {} THEN <<>>
    ELSE LET m == CHOOSE k \in S : \A j \in S : k <= j
         IN <<m>> \o Sorted(S \ {m})

SegmentStart(p, k) ==
    CHOOSE j \in 1..k :
        /\ (j = 1 \/ p[j - 1] = SEP)
        /\ \A i \in j..k : p[i] # SEP

IsListing(r) ==
    Finished(r) /\ resp[r].status = 200 /\ resp[r].content_length = -1

\* The heading has the root link, then one link per segment, with the
\* segment as text; lastHref(p, k) is the href the last link must carry.
TitleIs(r, lastHref(_, _)) ==
    LET p == req_path[r]
        ends == Sorted(SegmentEnds(p))
        n == Len(ends)
        links == resp[r].title
    IN /\ Len(links) = n + 1
       /\ links[1] = Link(Slash, Slash)
       /\ \A i \in 1..n :
             /\ links[i + 1].text
                    = SubSeq(p, SegmentStart(p, ends[i]), ends[i])
             /\ links[i + 1].href
                    = IF i < n THEN SubSeq(p, 1, ends[i])
                      ELSE lastHref(p, ends[i])

PrefixHref(p, k) == SubSeq(p, 1, k)
WholeHref(p, k) == p

\* C6 as claimed: the heading of a directory page has n+1 links, the root
\* link and one per segment of the request path, each with the segment as
\* text and the path prefix ending at that segment as href, so that /x/y/
\* and /x/y give the same links.
C6_Original == \A r \in Requests : IsListing(r) => TitleIs(r, PrefixHref)

\* C6, amended: the heading has n+1 links, the root link and one per
\* segment, each with the segment as text; the href of every link but the
\* last is the prefix of the request path ending at its segment, and the
\* href of the last link is the request path as sent, a trailing separator
\* included, so that /x/y/ gives /, /x and /x/y/.
C6_Title == \A r \in Requests : IsListing(r) => TitleIs(r, WholeHref)

\* The page of /b/d/ has three links, the last with href /b/d/.
C6_Witness ==
    \E r \in Requests :
        /\ IsListing(r)
        /\ req_path[r] = Slash \o N_b \o Slash \o N_d \o Slash
        /\ Len(resp[r].title) = 3
        /\ resp[r].title[2] = Link(Slash \o N_b, N_b)
        /\ resp[r].title[3] = Link(req_path[r], N_d)

IsFileResponse(r) == resp[r].status = 200 /\ resp[r].content_length >= 0

\* The file name a request path ends with, and its extension: what follows
\* the last "." when that is not the first byte of the name.
LastName(r) == Segments(req_path[r])[Len(Segments(req_path[r]))]
LastDot(n) == CHOOSE k \in 0..Len(n) :
                  /\ (k = 0 \/ n[k] = DOT)
                  /\ \A j \in (k + 1)..Len(n) : n[j] # DOT
ExtensionOf(n) ==
    IF LastDot(n) <= 1 THEN <<>> ELSE SubSeq(n, LastDot(n) + 1, Len(n))

TextCss == Str(<<"t", "e", "x", "t", "/", "c", "s", "s">>)
TextHtml == Str(<<"t", "e", "x", "t", "/", "h", "t", "m", "l">>)
TextPlain == Str(<<"t", "e", "x", "t", "/", "p", "l", "a", "i", "n">>)
TextXml == Str(<<"t", "e", "x", "t", "/", "x", "m", "l">>)
AppJson == Str(<<"a", "p", "p", "l", "i", "c", "a", "t", "i", "o", "n", "/",
                 "j", "s", "o", "n">>)
AppOctet == Str(<<"a", "p", "p", "l", "i", "c", "a", "t", "i", "o", "n", "/",
                  "o", "c", "t", "e", "t", "-", "s", "t", "r", "e", "a", "m">>)
CharsetUtf8 == Str(<<";", " ", "c", "h", "a", "r", "s", "e", "t", "=", "u",
                     "t", "f", "-", "8">>)

\* The media type the mapping gives an extension, compared case-sensitively.
MediaTypeOf(ext) ==
    IF ext = Str(<<"c", "s", "s">>) THEN TextCss
    ELSE IF ext \in {Str(<<"h", "t", "m">>), Str(<<"h", "t", "m", "l">>)}
         THEN TextHtml
    ELSE IF ext = Str(<<"j", "s", "o", "n">>) THEN AppJson
    ELSE IF ext = Str(<<"t", "x", "t">>) THEN TextPlain
    ELSE IF ext = Str(<<"x", "m", "l">>) THEN TextXml
    ELSE AppOctet

\* C4 as claimed: the Content-Type of a 200 file response is the media type
\* of the case-sensitive extension mapping, and each of text/css, text/html,
\* text/plain and text/xml carries a charset qualifier.
C4_Original ==
    \A r \in Requests :
        IsFileResponse(r) =>
            LET m == MediaTypeOf(ExtensionOf(LastName(r)))
            IN resp[r].content_type
                   = IF m \in {TextCss, TextHtml, TextPlain, TextXml}
                     THEN m \o CharsetUtf8 ELSE m

\* C4, amended: the Content-Type of a 200 file response is decided by the
\* extension alone, compared case-sensitively: css gives text/css, htm and
\* html give text/html, txt gives text/plain, each followed by
\* "; charset=utf-8"; xml gives text/xml with no charset qualifier; json
\* gives application/json; any other or missing extension gives
\* application/octet-stream.
C4_ContentType ==
    \A r \in Requests :
        IsFileResponse(r) =>
            LET m == MediaTypeOf(ExtensionOf(LastName(r)))
            IN resp[r].content_type
                   = IF m \in {TextCss, TextHtml, TextPlain}
                     THEN m \o CharsetUtf8 ELSE m

\* A file named a.xml has been served as text/xml, with no charset.
C4_Witness ==
    \E r \in Requests :
        /\ IsFileResponse(r)
        /\ LastName(r) = Str(<<"a", ".", "x", "m", "l">>)
        /\ resp[r].content_type = TextXml

RECURSIVE Pow1000(_)
Pow1000(k) == IF k = 0 THEN 1 ELSE 1000 * Pow1000(k - 1)

Abs(x) == IF x < 0 THEN -x ELSE x

\* The text of t tenths with the k-th decimal prefix.
PrefixedText(t, k) ==
    Digits(t \div 10) \o <<DOT>> \o Digits(t % 10)
        \o Str(<<" ", PrefixSymbols[k], "B">>)

\* The size cell of n bytes: below 1000 the integer and " B"; from 1000 on
\* n over the largest power of 1000 not above it, to the nearest tenth,
\* with that power's prefix; the tenths stay below `limit`.
SizeTextOk(cell, n, limit) ==
    IF n < 1000 THEN cell = Digits(n) \o Str(<<" ", "B">>)
    ELSE LET k == CHOOSE j \in 1..3 :
                      Pow1000(j) <= n /\ n \div Pow1000(j) < 1000
             P == Pow1000(k)
         IN \E t \in {(10 * n) \div P, (10 * n) \div P + 1} :
               /\ cell = PrefixedText(t, k)
               /\ 2 * Abs(t * P - 10 * n) <= P
               /\ t < limit

ListedSize(r) == fs[<<resp[r].rows[1].text>>].len

SizeExamples(r) ==
    LET n == ListedSize(r)
        cell == resp[r].rows[1].size
    IN /\ n = 0 => cell = Str(<<"0", " ", "B">>)
       /\ n = 999 => cell = Str(<<"9", "9", "9", " ", "B">>)
       /\ n = 1000 => cell = Str(<<"1", ".", "0", " ", "k", "B">>)
       /\ n = 1500000 => cell = Str(<<"1", ".", "5", " ", "M", "B">>)

\* C7 as claimed: the size cell is the integer and " B" below 1000 bytes,
\* and from 1000 on the count over the largest power of 1000 not above it,
\* rounded to one decimal place, with the prefix; 0, 999, 1000 and 1500000
\* give "0 B", "999 B", "1.0 kB" and "1.5 MB"; the number of a prefixed
\* result is below 1000.
C7_Original ==
    \A r \in Requests :
        (IsListing(r) /\ Len(resp[r].rows) = 1) =>
            /\ SizeTextOk(resp[r].rows[1].size, ListedSize(r), 10000)
            /\ SizeExamples(r)

\* C7, amended: as claimed, but the number of a prefixed result is at most
\* 1000.0, which it is when the rounding carries: 999999 bytes give
\* "1000.0 kB".
C7_PrettySize ==
    \A r \in Requests :
        (IsListing(r) /\ Len(resp[r].rows) = 1) =>
            /\ SizeTextOk(resp[r].rows[1].size, ListedSize(r), 10001)
            /\ SizeExamples(r)

\* A file of 999999 bytes has been listed as "1000.0 kB".
C7_Witness ==
    \E r \in Requests :
        /\ IsListing(r) /\ Len(resp[r].rows) = 1
        /\ ListedSize(r) = 999999
        /\ resp[r].rows[1].size
               = Str(<<"1", "0", "0", "0", ".", "0", " ", "k", "B">>)

Contains(text, part) ==
    \E i \in 0..(Len(text) - Len(part)) :
        SubSeq(text, i + 1, i + Len(part)) = part

StatusOf(kind) ==
    IF kind = "NotFound" THEN 404
    ELSE IF kind = "PermissionDenied" THEN 403
    ELSE 500

\* An error response for the failure e, and nothing of a page or a body.
ErrorResponse(rs, e) ==
    /\ rs.status = StatusOf(e.kind)
    /\ Contains(rs.text, e.msg)
    /\ rs.content_length = -1 /\ rs.sent = 0
    /\ rs.title = <<>> /\ rs.rows = <<>>

\* A step of request r in which its filesystem call fails.
FailsAt(r) ==
    IF pc[r] = "metadata" THEN fs_metadata(fs, root, path[r])
    ELSE IF pc[r] = "read_dir" THEN fs_read_dir(fs, root, path[r])
    ELSE IF pc[r] = "open" THEN fs_open(fs, root, path[r])
    ELSE Ok(<<>>)

C2_Step ==
    \A r \in Requests :
        (pc[r] \in {"metadata", "read_dir", "open"} /\ pc'[r] # pc[r]
         /\ ~FailsAt(r).ok)
        => (pc'[r] = "done" /\ ErrorResponse(resp'[r], FailsAt(r)))

\* C2: when the metadata query, the directory enumeration or the file open
\* fails, the request ends with an error response: 404 for not-found, 403
\* for permission-denied, 500 for any other cause, the cause's text in the
\* body, and no 200 status, page or body; and an answered request keeps its
\* response.
C2_FsFailure ==
    [][C2_Step /\ \A r \in Requests : Finished(r) => resp'[r] = resp[r]]_vars

\* A request whose file was removed between the metadata query and the
\* open has been answered 404.
C2_Witness ==
    \E r \in Requests :
        /\ Finished(r) /\ resp[r].status = 404
        /\ meta[r] = [is_dir |-> FALSE, len |-> 3]
        /\ Cardinality(calls[r]) = 1
        /\ Contains(resp[r].text, ENOENT.msg)

\* The names of `names` that are valid text, in order.
RECURSIVE TextNames(_)
TextNames(names) ==
    IF names = <<>> THEN <<>>
    ELSE (IF Utf8Valid(Head(names)) THEN <<Head(names)>> ELSE <<>>)
             \o TextNames(Tail(names))

\* The node of the tree a validated request path names.
NodeOfRequest(rp) ==
    LET segs == Segments(rp)
        keep == {i \in 1..Len(segs) : segs[i] # <<>> /\ segs[i] # <<DOT>>}
        order == Sorted(keep)
    IN [i \in 1..Len(order) |-> segs[order[i]]]

\* The metadata of a node can be had when the node exists and every
\* directory above it exists and can be searched.
Obtainable(node) ==
    /\ node \in DOMAIN fs
    /\ \A i \in 0..(Len(node) - 1) :
          /\ SubSeq(node, 1, i) \in DOMAIN fs
          /\ fs[SubSeq(node, 1, i)].kind = "dir"
          /\ fs[SubSeq(node, 1, i)].perm

SlashJoin(rp, name) ==
    (IF rp[Len(rp)] = SEP THEN rp ELSE rp \o <<SEP>>) \o name

\* The page request r gets from the entries it has read and the tree as it
\* is: one row per entry whose name is text, in order.
RowsOk(r, rows) ==
    LET shown == TextNames(entries[r])
        dir == NodeOfRequest(req_path[r])
    IN /\ Len(rows) = Len(shown)
       /\ \A i \in 1..Len(shown) :
             LET child == dir \o <<shown[i]>>
             IN /\ rows[i].text = shown[i]
                /\ rows[i].href = SlashJoin(req_path[r], shown[i])
                /\ rows[i].size
                       = IF Obtainable(child) /\ fs[child].kind = "file"
                         THEN Digits(fs[child].len) \o Str(<<" ", "B">>)
                         ELSE <<>>

C5_Step ==
    \A r \in Requests :
        (pc[r] = "format" /\ pc'[r] # pc[r])
        => (pc'[r] = "done" /\ resp'[r].status = 200
            /\ RowsOk(r, resp'[r].rows))

\* C5: a directory request whose enumeration succeeded is answered 200 with
\* one row per child whose name is valid text: the link is the request path
\* joined with the name by a forward slash, the text is the name, and the
\* size cell is the byte size (here below 1000: "<n> B") when the child's
\* metadata can be had and says plain file, and empty otherwise.
C5_Listing == [][C5_Step]_vars

\* The page of / lists a.txt with "3 B" and b with an empty size cell, and
\* has no row for the entry whose name is not text.
C5_Witness ==
    \E r \in Requests :
        /\ IsListing(r) /\ req_path[r] = Slash
        /\ N_raw \in {entries[r][i] : i \in 1..Len(entries[r])}
        /\ \E i, j \in 1..Len(resp[r].rows) :
              /\ resp[r].rows[i] = [href |-> Slash \o N_atxt, text |-> N_atxt,
                                    size |-> Str(<<"3", " ", "B">>)]
              /\ resp[r].rows[j] = [href |-> Slash \o N_b, text |-> N_b,
                                    size |-> <<>>]
        /\ \A i \in 1..Len(resp[r].rows) : resp[r].rows[i].text # N_raw

\* C8: in every 200 file response Content-Length is the length the metadata
\* query reported and the number of bytes the body delivers, whatever other
\* processes do to the file between the metadata query, the open and the
\* reads.
C8_ContentLength ==
    \A r \in Requests :
        (Finished(r) /\ IsFileResponse(r)) =>
            /\ resp[r].content_length = meta[r].len
            /\ resp[r].sent = resp[r].content_length
            /\ ~resp[r].aborted

\* C10: every href of a directory page, row or heading, sent back as the
\* URI path of a new request, passes the decoding and the validation and
\* resolves to the entry it was emitted for: the listed directory's child
\* of that name, or the ancestor directory of that heading link.
C10_RoundTrip ==
    \A r \in Requests :
        IsListing(r) =>
            /\ \A i \in 1..Len(resp[r].rows) :
                  LET back == resolve(root, resp[r].rows[i].href)
                  IN /\ back.ok
                     /\ NodeOf(root, back.path).node
                            = NodeOf(root, path[r]).node
                                  \o <<resp[r].rows[i].text>>
            /\ \A i \in 1..Len(resp[r].title) :
                  LET back == resolve(root, resp[r].title[i].href)
                  IN /\ back.ok
                     /\ NodeOf(root, back.path).node
                            = SubSeq(NodeOf(root, path[r]).node, 1, i - 1)

\* C9: a request whose filesystem I/O completes is answered in the end,
\* whatever I/O other requests are blocked on.
C9_Progress ==
    \A r \in Requests : [](~stuck[r] => <>Finished(r))

===========================================================================
